---- MODULE Spec2Model ----
(***************************************************************************)
(* Model of the customer-messaging dashboard (the App component in its     *)
(* four revisions, with its ChatComposer) and of the request-forwarding    *)
(* handler api/index.js.                                                   *)
(*                                                                         *)
(* The hosted backend is modelled by what the client can observe of it:    *)
(* the two tables, the answer to a query (a snapshot of the table taken    *)
(* at some moment between the request and the response) and the realtime   *)
(* feed (one FIFO inbox per open channel, filled when a row is written).   *)
(* One action is one turn of the JavaScript event loop: a click with the   *)
(* effects React runs for it, the resolution of one awaited promise, one   *)
(* feed callback.                                                          *)
(***************************************************************************)
EXTENDS Integers, Sequences, FiniteSets, TLC

VARIABLES
  variant,        \* which revision of App is running (fixed at construction)
  conversations,  \* useState([]): the customers list
  selectedPhone,  \* useState(null): the selected conversation key
  messages,       \* useState([]): the message list
  text,           \* ChatComposer useState(""): the input, a sequence of characters
  mounted,        \* the component is mounted
  console,        \* what console.error has printed, oldest first
  customers,      \* backend: the customers table, phone -> row
  store,          \* backend: the messages table, a set of rows
  inserts,        \* backend: rows written to the messages table during the run
  custFetches,    \* loadCustomers() calls whose promise has not resolved
  msgFetches,     \* loadMessages() calls whose promise has not resolved
  custChannels,   \* open channels on the customers table
  msgChannels,    \* open channels/subscriptions on the messages table
  posts,          \* fetch("/send") calls whose promise has not settled
  lastOp,         \* the handler that ran last, with its argument
  py,             \* api/index.js: the spawned process as the handler sees it
  written,        \* api/index.js: the chunks the process has written, in order
  out,            \* api/index.js: let out = ''
  res             \* api/index.js: the response, once sent

vars == <<variant, conversations, selectedPhone, messages, text, mounted, console,
          customers, store, inserts, custFetches, msgFetches, custChannels,
          msgChannels, posts, lastOp, py, written, out, res>>

viewVars == <<variant, conversations, selectedPhone, messages, text, mounted, console,
              customers, store, inserts, custFetches, msgFetches, custChannels,
              msgChannels, posts, lastOp>>

relayVars == <<py, written, out, res>>

(***************************************************************************)
(* Bounds of the model                                                     *)
(***************************************************************************)
MaxNew == 2        \* rows the backend writes to the messages table in one run
MaxPending == 2    \* unresolved loadMessages()/loadCustomers() promises
MaxErrors == 1     \* failures the backend injects while console is this short
MaxSeen == 3       \* the largest last_seen the backend writes
MaxPosts == 2      \* unsettled POST /send requests
MaxChunks == 2     \* 'data' events of one process
MaxChunkLen == 2   \* bytes in one 'data' event

(***************************************************************************)
(* Values                                                                  *)
(***************************************************************************)
null == "null"

Phones == {"+1555", "+1666"}

Variants == {"App.jsx", "part_001", "part_002", "part_003"}

\* .limit(100)
FetchLimit == 100

Msg(n, p) == [id |-> n, phone |-> p, created_at |-> n]

Customer(p, seen) == [phone |-> p, display_name |-> null, last_seen |-> seen]

(***************************************************************************)
(* What differs between the revisions                                      *)
(***************************************************************************)
\* .order("created_at", { ascending: ... })
Ascending(v) == v = "part_002"

\* the INSERT subscription carries filter: `phone=eq.${selected}`
ServerFilter(v) == v # "part_001"

\* if (error) console.error(...) else setMessages(data || [])
ChecksError(v) == v # "part_001"

\* the customers_channel UPDATE subscription exists
WatchesCustomers(v) == v \in {"App.jsx", "part_002"}

\* send() wraps the fetch in try/catch
CatchesSend(v) == v \in {"App.jsx", "part_002"}

(***************************************************************************)
(* Sequences                                                               *)
(***************************************************************************)
Reverse(s) == [i \in 1..Len(s) |-> s[Len(s) + 1 - i]]

RemoveAt(s, i) == SubSeq(s, 1, i - 1) \o SubSeq(s, i + 1, Len(s))

Min(a, b) == IF a < b THEN a ELSE b

Range(s) == {s[i] : i \in 1..Len(s)}

(***************************************************************************)
(* The backend's answer to loadMessages' query                             *)
(***************************************************************************)
\* the rows of S with created_at in 1..hi, oldest first (creation times are those
\* of the backend's clock, one row per tick)
OrderByCreatedAt(S, hi) ==
  LET ticks == SelectSeq([t \in 1..hi |-> t],
                         LAMBDA t : \E m \in S : m.created_at = t)
  IN  [i \in 1..Len(ticks) |-> CHOOSE m \in S : m.created_at = ticks[i]]

Limit(s, n) == SubSeq(s, 1, Min(Len(s), n))

\* .from("messages").select("*").eq("phone", key).order("created_at", ...).limit(100)
QueryMessages(S, key, v) ==
  LET rows == {m \in S : m.phone = key}
      asc  == OrderByCreatedAt(rows, Cardinality(S))
  IN  Limit(IF Ascending(v) THEN asc ELSE Reverse(asc), FetchLimit)

RECURSIVE OrderByLastSeen(_, _)
\* the customers rows with last_seen <= hi, most recent first
OrderByLastSeen(tbl, hi) ==
  IF hi < 0 THEN <<>>
  ELSE LET at == {p \in DOMAIN tbl : tbl[p].last_seen = hi}
       IN  (IF at = {} THEN <<>> ELSE <<tbl[CHOOSE p \in at : TRUE]>>)
             \o OrderByLastSeen(tbl, hi - 1)

\* .from("customers").select("*").order("last_seen", { ascending: false })
QueryCustomers(tbl) == OrderByLastSeen(tbl, MaxSeen + 1)

(***************************************************************************)
(* Construction: React mounts App, every effect runs once                  *)
(***************************************************************************)
\* a request on its way; in the answer, error says that data is null (data then
\* holds no rows)
Request(key) == [key |-> key, phase |-> "sent", data |-> <<>>, error |-> FALSE]

\* the handler that ran last: its name, the conversation key, number and failure
\* flag of its argument (null, 0, FALSE where it has none)
Op(op, phone, n, failed) == [op |-> op, phone |-> phone, n |-> n, failed |-> failed]

\* supabase.channel(...).on("postgres_changes", {..., filter}, callback).subscribe()
\* `selected` is the value the callback's closure holds
Channel(filter, selected) == [filter |-> filter, selected |-> selected, inbox |-> <<>>]

InitView(v, rows) ==
  /\ variant = v
  /\ conversations = <<>>
  /\ selectedPhone = null
  /\ messages = <<>>
  /\ text = <<>>
  /\ mounted = TRUE
  /\ console = <<>>
  /\ customers = [p \in Phones |-> Customer(p, IF p = "+1555" THEN 1 ELSE 0)]
  /\ store = rows
  /\ inserts = 0
  /\ custFetches = <<Request("customers")>>
  /\ msgFetches = <<>>
  /\ custChannels = IF WatchesCustomers(v) THEN <<Channel("*", null)>> ELSE <<>>
  /\ msgChannels = IF ServerFilter(v) THEN <<>> ELSE <<Channel("*", null)>>
  /\ posts = <<>>
  /\ lastOp = Op("mount", null, 0, FALSE)

InitRelay ==
  /\ py = [state |-> "none", stdin |-> <<>>, code |-> 0]
  /\ written = <<>>
  /\ out = <<>>
  /\ res = [sent |-> FALSE, status |-> 0, body |-> <<>>]

Init == (\E v \in Variants : InitView(v, {})) /\ InitRelay

\* a messages table that already holds n rows of one conversation
Preload(n) == {Msg(i, "+1555") : i \in 1..n}

\* construction against a table with more rows than one query returns
InitLimit == (\E v \in Variants : InitView(v, Preload(FetchLimit + 1))) /\ InitRelay

(***************************************************************************)
(* Backend: queries                                                        *)
(***************************************************************************)
\* the backend answers loadCustomers' query, or the request fails
dbAnswerCustomers(i, ok) ==
  /\ i \in 1..Len(custFetches)
  /\ custFetches[i].phase = "sent"
  /\ ok \/ Len(console) < MaxErrors
  /\ custFetches' = [custFetches EXCEPT ![i] =
        IF ok THEN [@ EXCEPT !.phase = "answered", !.data = QueryCustomers(customers)]
        ELSE [@ EXCEPT !.phase = "answered", !.error = TRUE]]
  /\ UNCHANGED <<variant, conversations, selectedPhone, messages, text, mounted, console,
                 customers, store, inserts, msgFetches, custChannels, msgChannels,
                 posts, lastOp>>
  /\ UNCHANGED relayVars

\* the backend answers loadMessages' query, or the request fails
dbAnswerMessages(i, ok) ==
  /\ i \in 1..Len(msgFetches)
  /\ msgFetches[i].phase = "sent"
  /\ ok \/ Len(console) < MaxErrors
  /\ msgFetches' = [msgFetches EXCEPT ![i] =
        IF ok THEN [@ EXCEPT !.phase = "answered",
                             !.data = QueryMessages(store, msgFetches[i].key, variant)]
        ELSE [@ EXCEPT !.phase = "answered", !.error = TRUE]]
  /\ UNCHANGED <<variant, conversations, selectedPhone, messages, text, mounted, console,
                 customers, store, inserts, custFetches, custChannels, msgChannels,
                 posts, lastOp>>
  /\ UNCHANGED relayVars

(***************************************************************************)
(* Backend: the realtime feed                                              *)
(***************************************************************************)
\* faulty variant: the filter of the subscription is not applied
MatchesUnfiltered(ch, row) == TRUE

\* whether the backend sends an INSERT of `row` down channel ch
Matches(ch, row) == ch.filter = "*" \/ ch.filter = row.phone

Publish(chs, row) ==
  [k \in 1..Len(chs) |->
     IF Matches(chs[k], row) THEN [chs[k] EXCEPT !.inbox = Append(@, row)] ELSE chs[k]]

\* a message is sent or received: the backend inserts a row for phone p
dbInsertMessage(p) ==
  /\ inserts < MaxNew
  /\ LET row == Msg(Cardinality(store) + 1, p)
     IN  /\ store' = store \cup {row}
         /\ msgChannels' = Publish(msgChannels, row)
  /\ inserts' = inserts + 1
  /\ UNCHANGED <<variant, conversations, selectedPhone, messages, text, mounted, console,
                 customers, custFetches, msgFetches, custChannels, posts, lastOp>>
  /\ UNCHANGED relayVars

(***************************************************************************)
(* App: the effects                                                        *)
(***************************************************************************)
\* faulty variant: the cleanup leaves the channel open
removeChannelLeak(chs, opened) == chs

\* supabase.removeChannel(channel) / removeSubscription(subscription): the cleanup
\* of the effect that ran last; `opened` tells whether that effect opened a channel,
\* which is then the newest one
removeChannel(chs, opened) ==
  IF opened /\ chs # <<>> THEN SubSeq(chs, 1, Len(chs) - 1) ELSE chs

\* the previous run of the messages effect got past `if (!selectedPhone) return`;
\* part_001 subscribes unconditionally
Subscribed == selectedPhone # null \/ ~ServerFilter(variant)

\* the filter of the INSERT subscription opened for key p
InsertFilter(v, p) == IF ServerFilter(v) THEN p ELSE "*"

\* onClick={() => setSelectedPhone(c.phone)} and the effects on [selectedPhone]
onClick(p) ==
  /\ mounted
  /\ \E i \in 1..Len(conversations) : conversations[i].phone = p
  /\ p # selectedPhone
  /\ Len(msgFetches) < MaxPending
  /\ selectedPhone' = p
  /\ msgChannels' = Append(removeChannel(msgChannels, Subscribed),
                           Channel(InsertFilter(variant, p), p))
  /\ msgFetches' = Append(msgFetches, Request(p))
  /\ IF variant = "part_001"
       THEN /\ Len(custFetches) < MaxPending
            /\ custFetches' = Append(custFetches, Request("customers"))
       ELSE UNCHANGED custFetches
  /\ lastOp' = Op("onClick", p, 0, FALSE)
  /\ UNCHANGED <<variant, conversations, messages, text, mounted, console,
                 customers, store, inserts, custChannels, posts>>
  /\ UNCHANGED relayVars
\* data || []
OrEmpty(f) == IF f.error THEN <<>> ELSE f.data

\* what loadMessages does with the answer f: the new message list
\*   if (error) console.error(...); else setMessages(data || [])
\*   part_001: setMessages(data || [])
setMessagesFrom(v, f, prev) ==
  IF ChecksError(v) /\ f.error THEN prev ELSE OrEmpty(f)

\* what loadMessages prints for the answer f
logMessagesError(v, f, log) ==
  IF ChecksError(v) /\ f.error THEN Append(log, "Error loading messages:") ELSE log

\* loadMessages resumes after its await: the promise of request i resolves
loadMessagesResolve(i) ==
  /\ i \in 1..Len(msgFetches)
  /\ msgFetches[i].phase = "answered"
  /\ messages' = IF mounted THEN setMessagesFrom(variant, msgFetches[i], messages)
                 ELSE messages
  /\ console' = logMessagesError(variant, msgFetches[i], console)
  /\ msgFetches' = RemoveAt(msgFetches, i)
  /\ lastOp' = Op("loadMessages", msgFetches[i].key, 0, msgFetches[i].error)
  /\ UNCHANGED <<variant, conversations, selectedPhone, text, mounted,
                 customers, store, inserts, custFetches, custChannels, msgChannels, posts>>
  /\ UNCHANGED relayVars

\* loadCustomers resumes after its await
\*   if (error) console.error(...); else setConversations(data || [])
\*   part_001: setConversations(data || [])
loadCustomersResolve(i) ==
  /\ i \in 1..Len(custFetches)
  /\ custFetches[i].phase = "answered"
  /\ conversations' = IF ~mounted \/ (ChecksError(variant) /\ custFetches[i].error)
                      THEN conversations ELSE OrEmpty(custFetches[i])
  /\ console' = IF ChecksError(variant) /\ custFetches[i].error
                THEN Append(console, "Error loading customers:") ELSE console
  /\ custFetches' = RemoveAt(custFetches, i)
  /\ lastOp' = Op("loadCustomers", null, 0, custFetches[i].error)
  /\ UNCHANGED <<variant, selectedPhone, messages, text, mounted,
                 customers, store, inserts, msgFetches, custChannels, msgChannels, posts>>
  /\ UNCHANGED relayVars

\* faulty variant: every revision adds the new row at the end of the list
insertCallbackAppend(v, ch, row, prev) ==
  IF ~ServerFilter(v) /\ row.phone # ch.selected THEN prev ELSE Append(prev, row)

\* the INSERT callback of channel ch applied to payload.new = row
\*   App.jsx, part_003: setMessages((prev) => [payload.new, ...prev])
\*   part_002:          setMessages((prev) => [...prev, payload.new])
\*   part_001:          if (msg.phone === selected) setMessages(prev => [msg, ...prev])
insertCallback(v, ch, row, prev) ==
  IF ~ServerFilter(v) /\ row.phone # ch.selected THEN prev
  ELSE IF Ascending(v) THEN Append(prev, row)
  ELSE <<row>> \o prev

\* the feed delivers the oldest event of channel k to its callback
onInsert(k) ==
  /\ k \in 1..Len(msgChannels)
  /\ msgChannels[k].inbox # <<>>
  /\ LET row == Head(msgChannels[k].inbox)
     IN  /\ messages' = insertCallback(variant, msgChannels[k], row, messages)
         /\ lastOp' = Op("onInsert", row.phone, row.id, FALSE)
  /\ msgChannels' = [msgChannels EXCEPT ![k].inbox = Tail(@)]
  /\ UNCHANGED <<variant, conversations, selectedPhone, text, mounted, console,
                 customers, store, inserts, custFetches, msgFetches, custChannels, posts>>
  /\ UNCHANGED relayVars

\* the view is disposed: React runs the cleanup of every effect
unmount ==
  /\ mounted
  /\ mounted' = FALSE
  /\ msgChannels' = removeChannel(msgChannels, Subscribed)
  /\ custChannels' = removeChannel(custChannels, WatchesCustomers(variant))
  /\ lastOp' = Op("unmount", null, 0, FALSE)
  /\ UNCHANGED <<variant, conversations, selectedPhone, messages, text, console,
                 customers, store, inserts, custFetches, msgFetches, posts>>
  /\ UNCHANGED relayVars

(***************************************************************************)
(* The conversation list: UPDATE events on the customers table             *)
(***************************************************************************)
\* the newest last_seen of the customers table
Newest(tbl) == CHOOSE n \in 0..MaxSeen :
                 /\ \E p \in DOMAIN tbl : tbl[p].last_seen = n
                 /\ \A p \in DOMAIN tbl : tbl[p].last_seen <= n

\* a customer is seen again: the backend updates the row of phone p
dbUpdateCustomer(p) ==
  /\ Newest(customers) < MaxSeen
  /\ LET row == [customers[p] EXCEPT !.last_seen = Newest(customers) + 1]
     IN  /\ customers' = [customers EXCEPT ![p] = row]
         /\ custChannels' = Publish(custChannels, row)
  /\ UNCHANGED <<variant, conversations, selectedPhone, messages, text, mounted, console,
                 store, inserts, custFetches, msgFetches, msgChannels, posts, lastOp>>
  /\ UNCHANGED relayVars

\* faulty variant: the updated conversation moves to the top of the list
updateCallbackToTop(row, prev) ==
  IF \E i \in 1..Len(prev) : prev[i].phone = row.phone
    THEN <<row>> \o SelectSeq(prev, LAMBDA c : c.phone # row.phone)
    ELSE prev

\* the UPDATE callback applied to payload.new = row
\*   setConversations((prev) => prev.map((c) => c.phone === payload.new.phone ? payload.new : c))
updateCallback(row, prev) ==
  [i \in 1..Len(prev) |-> IF prev[i].phone = row.phone THEN row ELSE prev[i]]

\* the feed delivers the oldest event of customers channel k to its callback
onUpdate(k) ==
  /\ k \in 1..Len(custChannels)
  /\ custChannels[k].inbox # <<>>
  /\ LET row == Head(custChannels[k].inbox)
     IN  /\ conversations' = updateCallback(row, conversations)
         /\ lastOp' = Op("onUpdate", row.phone, row.last_seen, FALSE)
  /\ custChannels' = [custChannels EXCEPT ![k].inbox = Tail(@)]
  /\ UNCHANGED <<variant, selectedPhone, messages, text, mounted, console,
                 customers, store, inserts, custFetches, msgFetches, msgChannels, posts>>
  /\ UNCHANGED relayVars

(***************************************************************************)
(* ChatComposer                                                            *)
(***************************************************************************)
\* what the user can have typed
Texts == {<<>>, <<" ">>, <<"h">>, <<"h", " ">>, <<" ", "h">>}

RECURSIVE TrimStart(_)
TrimStart(t) == IF t # <<>> /\ Head(t) = " " THEN TrimStart(Tail(t)) ELSE t

\* text.trim()
Trim(t) == Reverse(TrimStart(Reverse(TrimStart(t))))

\* how a POST /send ends: the promise rejects (network error) or resolves with a status
\* (status 0: there is no response)
Outcomes == {[rejected |-> TRUE, status |-> 0]}
              \cup {[rejected |-> FALSE, status |-> n] : n \in {200, 204, 404, 500}}

\* onChange={(e) => setText(e.target.value)}
onChange(t) ==
  /\ mounted
  /\ t # text
  /\ text' = t
  /\ lastOp' = Op("onChange", null, Len(t), FALSE)
  /\ UNCHANGED <<variant, conversations, selectedPhone, messages, mounted, console,
                 customers, store, inserts, custFetches, msgFetches, custChannels,
                 msgChannels, posts>>
  /\ UNCHANGED relayVars

\* faulty variant: the guard tests the text without trimming it
SendSkippedUntrimmed == selectedPhone = null \/ text = <<>>

\* if (!selectedPhone || !text.trim()) return;
SendSkipped == selectedPhone = null \/ Trim(text) = <<>>

\* faulty variant: send also puts the submitted message at the head of the thread
sendEcho ==
  /\ mounted
  /\ Len(posts) < MaxPosts
  /\ posts' = IF SendSkipped THEN posts
              ELSE Append(posts, [phone |-> selectedPhone, text |-> text])
  /\ messages' = IF SendSkipped THEN messages
                 ELSE <<Msg(Cardinality(store) + 1, selectedPhone)>> \o messages
  /\ lastOp' = Op("send", selectedPhone, Len(text), SendSkipped)
  /\ UNCHANGED <<variant, conversations, selectedPhone, text, mounted, console,
                 customers, store, inserts, custFetches, msgFetches, custChannels,
                 msgChannels>>
  /\ UNCHANGED relayVars

\* send() up to its await: fetch(`/send`, {method: "POST", body: {phone, text}})
send ==
  /\ mounted
  /\ Len(posts) < MaxPosts
  /\ posts' = IF SendSkipped THEN posts
              ELSE Append(posts, [phone |-> selectedPhone, text |-> text])
  /\ lastOp' = Op("send", selectedPhone, Len(text), SendSkipped)
  /\ UNCHANGED <<variant, conversations, selectedPhone, messages, text, mounted, console,
                 customers, store, inserts, custFetches, msgFetches, custChannels,
                 msgChannels>>
  /\ UNCHANGED relayVars

\* the promise of fetch() rejected
Rejected(o) == o.rejected

\* the input after send() resumed from its await with outcome o
\*   await fetch(...); setText("");   (a rejection leaves the function at the await)
textAfterSend(o, prev) == IF Rejected(o) THEN prev ELSE <<>>

\* send() resumes from its await: POST i ends with outcome o
sendResume(i, o) ==
  /\ i \in 1..Len(posts)
  /\ text' = IF mounted THEN textAfterSend(o, text) ELSE text
  /\ console' = IF Rejected(o) /\ CatchesSend(variant)
                THEN Append(console, "Failed to send message:") ELSE console
  /\ Rejected(o) /\ CatchesSend(variant) => Len(console) < MaxErrors
  /\ posts' = RemoveAt(posts, i)
  /\ lastOp' = Op("sendResume", posts[i].phone, o.status, o.rejected)
  /\ UNCHANGED <<variant, conversations, selectedPhone, messages, mounted,
                 customers, store, inserts, custFetches, msgFetches, custChannels,
                 msgChannels>>
  /\ UNCHANGED relayVars

(***************************************************************************)
(* The message thread: selection, bulk fetch, feed                         *)
(***************************************************************************)
Next ==
  \/ \E i \in 1..MaxPending, ok \in BOOLEAN : dbAnswerCustomers(i, ok)
  \/ \E i \in 1..MaxPending : loadCustomersResolve(i)
  \/ \E p \in Phones : onClick(p)
  \/ \E p \in Phones : dbInsertMessage(p)
  \/ \E i \in 1..MaxPending, ok \in BOOLEAN : dbAnswerMessages(i, ok)
  \/ \E i \in 1..MaxPending : loadMessagesResolve(i)
  \/ \E k \in 1..MaxPending : onInsert(k)
  \/ unmount

Spec == Init /\ [][Next]_vars
(***************************************************************************)
(* Claims on the message thread                                            *)
(***************************************************************************)
OnlyOf(key) == \A i \in 1..Len(messages) : messages[i].phone = key

\* C1 (as claimed): in every reachable state every message of the message list has
\* the selected conversation key.
C1_Original == OnlyOf(selectedPhone)

\* C2 (as claimed): when every bulk fetch issued so far has completed (none failed,
\* the view still mounted), the message list holds only messages of the selection.
C2_Original ==
  (mounted /\ selectedPhone # null /\ msgFetches = <<>> /\ console = <<>>)
    => OnlyOf(selectedPhone)

\* C3: a feed insert event whose key is not the selection leaves the message list
\* unchanged.
C3_ForeignInsertIgnored ==
  [][\A k \in 1..Len(msgChannels) :
       (onInsert(k) /\ Head(msgChannels[k].inbox).phone # selectedPhone)
         => messages' = messages]_vars

\* C3 witness: after two selections an insert event for the other key was delivered
\* and is not in the list.
C3_Witness ==
  /\ lastOp.op = "onInsert"
  /\ selectedPhone # null
  /\ lastOp.phone # selectedPhone
  /\ Len(msgFetches) = 2
  /\ \A i \in 1..Len(messages) : messages[i].id # lastOp.n

RECURSIVE Queued(_)
\* the events waiting in the inboxes of the channels chs
Queued(chs) == IF chs = <<>> THEN 0 ELSE Len(Head(chs).inbox) + Queued(Tail(chs))

\* C4: at most one message channel is open and it is scoped to the selection; a row
\* inserted for the selected key reaches exactly one callback, which adds exactly
\* one entry; disposing the view closes every channel.
C4_OneScopedChannel ==
  /\ [](/\ Len(msgChannels) <= 1
        /\ \A k \in 1..Len(msgChannels) :
             /\ msgChannels[k].selected = selectedPhone
             /\ msgChannels[k].filter \in {"*", selectedPhone}
        /\ ~mounted => (msgChannels = <<>> /\ custChannels = <<>>))
  /\ [][/\ (mounted /\ selectedPhone # null /\ dbInsertMessage(selectedPhone))
             => Queued(msgChannels') = Queued(msgChannels) + 1
        /\ \A k \in 1..Len(msgChannels) :
             (onInsert(k) /\ Head(msgChannels[k].inbox).phone = selectedPhone)
               => Len(messages') = Len(messages) + 1]_vars

\* C4 witness: after two selections an insert event for the selected key was
\* delivered and is in the list once.
C4_Witness ==
  /\ lastOp.op = "onInsert"
  /\ lastOp.phone = selectedPhone
  /\ Len(msgFetches) = 2
  /\ Cardinality({i \in 1..Len(messages) : messages[i].id = lastOp.n}) = 1

\* C5 (as claimed): when the bulk fetch for the selected key has failed (in the
\* revisions whose loadMessages reads the error, and the feed having delivered
\* nothing for the selection), the error has been logged and the message list is
\* empty.
C5_Original ==
  (/\ lastOp.op = "loadMessages"
   /\ lastOp.failed
   /\ lastOp.phone = selectedPhone
   /\ ChecksError(variant)
   /\ \A i \in 1..Len(messages) : messages[i].phone # selectedPhone
   /\ mounted)
    => (/\ messages = <<>>
        /\ console # <<>>
        /\ console[Len(console)] = "Error loading messages:")
(***************************************************************************)
(* The conversation list alone                                             *)
(***************************************************************************)
NextCustomers ==
  \/ \E i \in 1..MaxPending, ok \in BOOLEAN : dbAnswerCustomers(i, ok)
  \/ \E i \in 1..MaxPending : loadCustomersResolve(i)
  \/ \E p \in Phones : onClick(p)
  \/ \E p \in Phones : dbUpdateCustomer(p)
  \/ \E k \in 1..MaxPending : onUpdate(k)
  \/ unmount

SpecCustomers == Init /\ [][NextCustomers]_vars

(***************************************************************************)
(* The composer alone                                                      *)
(***************************************************************************)
NextComposer ==
  \/ \E i \in 1..MaxPending, ok \in BOOLEAN : dbAnswerCustomers(i, ok)
  \/ \E i \in 1..MaxPending : loadCustomersResolve(i)
  \/ \E p \in Phones : onClick(p)
  \/ \E t \in Texts : onChange(t)
  \/ send
  \/ \E i \in 1..MaxPosts, o \in Outcomes : sendResume(i, o)
  \/ unmount

SpecComposer == Init /\ [][NextComposer]_vars
(***************************************************************************)
(* The composer next to a thread that is fetched                           *)
(***************************************************************************)
\* App.jsx with one message stored for "+1555"
InitSend == InitView("App.jsx", Preload(1)) /\ InitRelay

NextSend ==
  \/ \E i \in 1..MaxPending, ok \in BOOLEAN : dbAnswerCustomers(i, ok)
  \/ \E i \in 1..MaxPending : loadCustomersResolve(i)
  \/ \E p \in Phones : onClick(p)
  \/ \E i \in 1..MaxPending, ok \in BOOLEAN : dbAnswerMessages(i, ok)
  \/ \E i \in 1..MaxPending : loadMessagesResolve(i)
  \/ \E t \in Texts : onChange(t)
  \/ send
  \/ \E i \in 1..MaxPosts, o \in Outcomes : sendResume(i, o)

SpecSend == InitSend /\ [][NextSend]_vars
(***************************************************************************)
(* The message thread over a table larger than the query's limit           *)
(***************************************************************************)
NextLimit ==
  \/ \E i \in 1..MaxPending, ok \in BOOLEAN : dbAnswerCustomers(i, ok)
  \/ \E i \in 1..MaxPending : loadCustomersResolve(i)
  \/ \E p \in Phones : onClick(p)
  \/ \E p \in Phones : dbInsertMessage(p)
  \/ \E i \in 1..MaxPending, ok \in BOOLEAN : dbAnswerMessages(i, ok)
  \/ \E i \in 1..MaxPending : loadMessagesResolve(i)

SpecLimit == InitLimit /\ [][NextLimit]_vars
(***************************************************************************)
(* api/index.js: the request-forwarding handler                            *)
(***************************************************************************)
\* the bytes the process writes: "a", and the two bytes of U+00E9 in UTF-8
Bytes == {97, 195, 169}

RECURSIVE ByteSeqs(_)
\* the byte sequences of length n
ByteSeqs(n) ==
  IF n = 0 THEN {<<>>}
  ELSE {Append(b, x) : b \in ByteSeqs(n - 1), x \in Bytes}

\* what one 'data' event can carry
Chunks == UNION {ByteSeqs(n) : n \in 1..MaxChunkLen}

\* how the process can close: an exit code, or -1 for code null (ended by a signal)
ExitCodes == {0, 1, -1}

RECURSIVE Decode(_)
\* d.toString(): the Buffer d decoded as UTF-8, an ill-formed byte giving U+FFFD
Decode(d) ==
  IF d = <<>> THEN <<>>
  ELSE IF d[1] = 97 THEN <<"a">> \o Decode(Tail(d))
  ELSE IF d[1] = 195 /\ Len(d) >= 2 /\ d[2] = 169
         THEN <<"U+00E9">> \o Decode(Tail(Tail(d)))
  ELSE <<"U+FFFD">> \o Decode(Tail(d))

RECURSIVE Encode(_)
\* res.send(out): the string out written to the response as UTF-8
Encode(str) ==
  IF str = <<>> THEN <<>>
  ELSE (CASE Head(str) = "a" -> <<97>>
          [] Head(str) = "U+00E9" -> <<195, 169>>
          [] OTHER -> <<239, 191, 189>>) \o Encode(Tail(str))

\* code === 0 ? 200 : 500
StatusFor(code) == IF code = 0 THEN 200 ELSE 500

\* module.exports = (req, res) => {...}: spawn, write the envelope, end stdin,
\* let out = '', register the two listeners
handler ==
  /\ py.state = "none"
  /\ py' = [py EXCEPT !.state = "running",
                      !.stdin = <<"JSON.stringify({ req, env })", "end">>]
  /\ out' = <<>>
  /\ UNCHANGED <<written, res>>
  /\ UNCHANGED viewVars

\* faulty variant: the response is sent from the 'data' listener
onDataResponds(d) ==
  /\ py.state = "running"
  /\ Len(written) < MaxChunks
  /\ written' = Append(written, d)
  /\ out' = out \o Decode(d)
  /\ res' = [sent |-> TRUE, status |-> 200, body |-> Encode(out \o Decode(d))]
  /\ UNCHANGED py
  /\ UNCHANGED viewVars

\* py.stdout.on('data', d => out += d)
onData(d) ==
  /\ py.state = "running"
  /\ Len(written) < MaxChunks
  /\ written' = Append(written, d)
  /\ out' = out \o Decode(d)
  /\ UNCHANGED <<py, res>>
  /\ UNCHANGED viewVars

\* py.on('close', code => { res.status(code === 0 ? 200 : 500).send(out); })
onClose(code) ==
  /\ py.state = "running"
  /\ py' = [py EXCEPT !.state = "closed", !.code = code]
  /\ res' = [sent |-> TRUE, status |-> StatusFor(code), body |-> Encode(out)]
  /\ UNCHANGED <<written, out>>
  /\ UNCHANGED viewVars

NextRelay ==
  \/ handler
  \/ \E d \in Chunks : onData(d)
  \/ \E code \in ExitCodes : onClose(code)

\* the view plays no part in the handler: it stays as constructed
InitHandler == InitView("App.jsx", {}) /\ InitRelay

SpecRelay == InitHandler /\ [][NextRelay]_vars
(***************************************************************************)
(* Claims on the composer                                                  *)
(***************************************************************************)
\* a response with a 2xx status
Success(o) == ~o.rejected /\ o.status \in 200..299

\* C6 (as claimed): when a POST /send ends, the input is cleared if the response
\* has a success status and is left as it is if the request failed (network error
\* or non-2xx status).
C6_Original ==
  [][\A i \in 1..Len(posts), o \in Outcomes :
       (mounted /\ sendResume(i, o))
         => text' = IF Success(o) THEN <<>> ELSE text]_vars

(***************************************************************************)
(* Claims on the conversation list                                         *)
(***************************************************************************)
\* C7: a conversation update event replaces the entry with the payload's key by the
\* payload row and changes no other entry, nor the length or order of the list; an
\* event whose key matches no entry changes nothing.
C7_UpdateInPlace ==
  [][\A k \in 1..Len(custChannels) :
       onUpdate(k) =>
         LET row == Head(custChannels[k].inbox)
         IN  /\ Len(conversations') = Len(conversations)
             /\ \A i \in 1..Len(conversations) :
                  conversations'[i] =
                    IF conversations[i].phone = row.phone THEN row ELSE conversations[i]
             /\ (\A i \in 1..Len(conversations) : conversations[i].phone # row.phone)
                  => conversations' = conversations]_vars

\* C7 witness: an update event replaced the last entry of a list of two, which now
\* is more recent than the entry above it.
C7_Witness ==
  /\ lastOp.op = "onUpdate"
  /\ Len(conversations) = 2
  /\ conversations[2].phone = lastOp.phone
  /\ conversations[2].last_seen = lastOp.n
  /\ conversations[1].phone # lastOp.phone
  /\ conversations[1].last_seen < conversations[2].last_seen

(***************************************************************************)
(* Claims on the order of the thread                                       *)
(***************************************************************************)
\* flexDirection: "column-reverse" shows messages[0] at the bottom; part_002 uses
\* flexDirection: "column"
ColumnReverse(v) == v # "part_002"

\* the thread as rendered, read from the top (oldest) edge to the bottom (newest)
Rendered(v, msgs) == IF ColumnReverse(v) THEN Reverse(msgs) ELSE msgs

SortedByCreatedAt(s) ==
  \A i \in 1..Len(s) - 1 : s[i].created_at <= s[i + 1].created_at

NewerThanAll(row, msgs) == \A i \in 1..Len(msgs) : msgs[i].created_at < row.created_at

\* C8: a completed bulk fetch renders oldest to newest by creation time, and an
\* insert event for the selected key that is newer than the listed messages
\* keeps the rendered thread sorted and is its newest entry.
C8_OneOrdering ==
  [][/\ \A i \in 1..Len(msgFetches) :
          (mounted /\ loadMessagesResolve(i) /\ ~msgFetches[i].error)
            => SortedByCreatedAt(Rendered(variant, messages'))
     /\ \A k \in 1..Len(msgChannels) :
          LET row == Head(msgChannels[k].inbox)
          IN  (/\ onInsert(k)
               /\ row.phone = selectedPhone
               /\ SortedByCreatedAt(Rendered(variant, messages))
               /\ NewerThanAll(row, messages))
                => LET r == Rendered(variant, messages')
                   IN  /\ SortedByCreatedAt(r)
                       /\ r[Len(r)] = row]_vars

\* C8 witness: an insert event landed on a fetched message; the rendered thread has
\* two entries, strictly increasing, the event's row last.
C8_Witness ==
  /\ lastOp.op = "onInsert"
  /\ lastOp.phone = selectedPhone
  /\ OnlyOf(selectedPhone)
  /\ Len(messages) = 2
  /\ LET r == Rendered(variant, messages)
     IN  r[1].created_at < r[2].created_at /\ r[2].id = lastOp.n

\* the n rows of `rows` with the greatest creation times
MostRecent(rows, n) ==
  {m \in rows : Cardinality({o \in rows : o.created_at > m.created_at}) < n}

\* C9 (as claimed): when more than 100 messages are stored for the key, the bulk
\* fetch yields exactly the 100 most recent ones.
C9_Original ==
  [][\A i \in 1..Len(msgFetches) :
       LET rows == {m \in store : m.phone = msgFetches[i].key}
       IN  (dbAnswerMessages(i, TRUE) /\ Cardinality(rows) > FetchLimit)
             => Range(msgFetches'[i].data) = MostRecent(rows, FetchLimit)]_vars

(***************************************************************************)
(* Claims on the request-forwarding handler                                *)
(***************************************************************************)
RECURSIVE Concat(_)
\* the chunks one after the other
Concat(chunks) == IF chunks = <<>> THEN <<>> ELSE Head(chunks) \o Concat(Tail(chunks))

\* the bytes are the UTF-8 encoding of a text
WellFormed(bytes) == Encode(Decode(bytes)) = bytes

\* C10 (as claimed): the response has status 200 exactly when the process closed
\* with exit code zero and 500 otherwise, and its body is the concatenation of the
\* chunks the process wrote, in order (stated for a process whose whole output is
\* well-formed UTF-8 text).
C10_Original ==
  (res.sent /\ WellFormed(Concat(written))) =>
    /\ res.status = (IF py.code = 0 THEN 200 ELSE 500)
    /\ res.body = Concat(written)

(***************************************************************************)
(* Claims on the state with no selection                                   *)
(***************************************************************************)
\* C11 (as claimed): whenever no conversation is selected the message list is
\* empty, no message fetch has been issued and no message subscription is open.
C11_Original ==
  selectedPhone = null =>
    /\ messages = <<>>
    /\ msgFetches = <<>>
    /\ msgChannels = <<>>

(***************************************************************************)
(* Claims on the composer's guard and frame                                *)
(***************************************************************************)
\* the text is empty or holds nothing but whitespace
Blank(t) == \A i \in 1..Len(t) : t[i] = " "

\* C12: a send with an empty or whitespace-only text, or with no conversation
\* selected, issues no POST and leaves the input text as it is.
C12_SkippedSendDoesNothing ==
  [][(send /\ (Blank(text) \/ selectedPhone = null))
       => (posts' = posts /\ text' = text)]_vars

\* C12 witness: with a conversation selected and a whitespace-only text in the
\* input, send ran and returned at its guard: no POST is in flight.
C12_Witness ==
  /\ lastOp.op = "send"
  /\ lastOp.failed
  /\ selectedPhone # null
  /\ text = <<" ">>
  /\ posts = <<>>

(***************************************************************************)
(* Claims on the order of the handler's steps                              *)
(***************************************************************************)
\* C13: for a request the handler spawns one process, writes the JSON envelope
\* to its input and then closes that input; the response is sent exactly when
\* the process has closed, never before, so while the process has not closed
\* no response has been sent; and a response once sent is never sent again or
\* changed.
C13_RespondsOnceAfterClose ==
  /\ [](/\ py.state # "none"
             => py.stdin = <<"JSON.stringify({ req, env })", "end">>
        /\ res.sent <=> py.state = "closed")
  /\ [][/\ res.sent => res' = res
        /\ (res'.sent /\ ~res.sent)
             => (py.state = "running" /\ \E code \in ExitCodes : onClose(code))]_vars

\* C13 witness: the process wrote two chunks and then closed with exit code 1;
\* the response, status 500, was sent at that close.
C13_Witness ==
  /\ py.state = "closed"
  /\ py.code = 1
  /\ Len(written) = 2
  /\ res.sent
  /\ res.status = 500

(***************************************************************************)
(* Claims on events that arrive before the initial fetch has completed     *)
(***************************************************************************)
\* every event the feed holds for the channels has been delivered
Delivered(chs) == \A k \in 1..Len(chs) : chs[k].inbox = <<>>

\* C14 (as claimed): once the initial conversation fetch has completed, the
\* entry of a key reflects the payload of the latest update event delivered for
\* it, also when that event was delivered before the fetch completed. Stated
\* where every update event has been delivered: each listed entry then equals
\* the stored row of its key.
C14_Original ==
  (/\ mounted
   /\ WatchesCustomers(variant)
   /\ custFetches = <<>>
   /\ console = <<>>
   /\ Delivered(custChannels))
    => \A i \in 1..Len(conversations) :
         conversations[i] = customers[conversations[i].phone]

\* C15: a composer submission, at the click and at the end of its POST whether
\* that succeeds or fails, leaves the message list, the conversation list and
\* the selection as they are; the message list changes only when a bulk fetch
\* completes or the feed delivers an insert event.
C15_SendFrame ==
  [][/\ (send \/ \E i \in 1..Len(posts), o \in Outcomes : sendResume(i, o))
          => UNCHANGED <<messages, conversations, selectedPhone>>
     /\ messages' # messages => lastOp'.op \in {"loadMessages", "onInsert"}]_vars

\* C15 witness: with the thread of the selected conversation fetched, a POST
\* ended with status 200; the input is cleared and the thread holds the one
\* fetched message, nothing of the submission.
C15_Witness ==
  /\ lastOp.op = "sendResume"
  /\ lastOp.n = 200
  /\ lastOp.phone = selectedPhone
  /\ posts = <<>>
  /\ text = <<>>
  /\ msgFetches = <<>>
  /\ Len(messages) = 1
  /\ Len(conversations) = 2

(***************************************************************************)
(* Claims on the bulk fetch racing the feed                                *)
(***************************************************************************)
\* C16 (as claimed): in every reachable state the message list holds at most
\* one entry per message identifier.
C16_Original ==
  \A i, j \in 1..Len(messages) : messages[i].id = messages[j].id => i = j

\* C17 (as claimed): no message of the selected conversation is lost when the
\* bulk fetch of that selection completes: a message of the selected key that
\* is in the list when the fetch completes without error (the feed put it
\* there after the subscription was opened) is in the list afterwards, also
\* when the fetch result does not contain it.
C17_Original ==
  [][\A i \in 1..Len(msgFetches) :
       (/\ mounted
        /\ loadMessagesResolve(i)
        /\ msgFetches[i].key = selectedPhone
        /\ ~msgFetches[i].error)
         => \A m \in Range(messages) :
              m.phone = selectedPhone => m \in Range(messages')]_vars

(***************************************************************************)
(* Claims on typing while a POST is in flight                              *)
(***************************************************************************)
\* C18 (as claimed): a completed send clears only the text that was submitted:
\* when the input no longer holds the text of the POST that ends, the text
\* present at that moment is preserved (stated for a text that is not blank).
C18_Original ==
  [][\A i \in 1..Len(posts), o \in Outcomes :
       (mounted /\ sendResume(i, o) /\ text # posts[i].text /\ ~Blank(text))
         => text' = text]_vars
====
